---- MODULE Spec2Model ----
(***************************************************************************)
(* Model of the networking examples: the LDJ buffering client              *)
(* (lib/ldj-client.js and net-watcher-ldj-client.js), the JSON change      *)
(* notification server (net-watcher-json-service.js) and the test service  *)
(* that splits one message over two writes.                                *)
(*                                                                         *)
(* A byte stream is a sequence of symbols.  "\n" is the line terminator;   *)
(* the other symbols stand for the pieces of JSON text the programs write: *)
(*   "{"  "}"   the braces of the object                                   *)
(*   "w"        "type":"watching"                                          *)
(*   "c"        "type":"changed"                                           *)
(*   "u"        "type":<any other string>                                  *)
(*   "f"        ,"file":"target.txt"                                       *)
(*   "t"        ,"timestamp":      (the key; its value follows)            *)
(*   "1".."9"   the digits of a timestamp value                            *)
(* Chunk boundaries fall between symbols.                                  *)
(***************************************************************************)
EXTENDS Integers, Sequences, FiniteSets, TLC

\* ------------------------------------------------------------------ bounds
MaxFrames == 3      \* frames in the byte stream offered to the client
MaxConns == 2       \* connections the server accepts during a run
MaxEvents == 2      \* changes of the watched file during a run
MaxFramesTwo == 1   \* frames in each stream when two clients run side by side
MaxTestConns == 3   \* connections the test service accepts during a run

VARIABLES
    stream,     \* the bytes the server side sends on the client's connection
    pos,        \* how many of them the transport has delivered as 'data'
    buffer,     \* LDJClient: let buffer = ''
    messages,   \* the 'message' events emitted so far, in order
    log,        \* console output of the 'message' handler
    status,     \* "running", or the uncaught exception that ended the process
    last,       \* snapshot taken when the latest 'data' event began
    ended,      \* the client's connection has ended: no more 'data' events
    removed,    \* the inputs the loop has cut out of the buffer, in order
    iterations, \* how often the loop body ran in the latest 'data' event
    stream2,    \* a second LDJClient in the process: the bytes of its stream
    pos2,       \* how many of them were delivered as 'data'
    buffer2,    \* the second instance's buffer
    messages2,  \* the 'message' events the second instance emitted
    version,    \* test service: which of the two listings of the file runs
    tconn,      \* test service: state of each accepted connection
    timer,      \* test service: state of the setTimeout timer of each connection
    twritten,   \* test service: the chunks written on each connection
    tserver,    \* "listening", or the uncaught exception that ended the service
    conn,       \* server: state of each accepted connection
    watcher,    \* server: state of the fs.watch watcher of each connection
    pending,    \* change events the system holds for each watcher's callback
    written,    \* what connection.write has put on each connection
    sent,       \* the objects given to JSON.stringify for each connection
    calls,      \* how often connection.write was called on each connection
    served,     \* the change events each connection got a frame for
    owed,       \* the change events that happened while a connection was open
    closedAt,   \* the time at which the 'close' listener of a connection ran
    now,        \* Date.now(): the time of the latest change of the file
    server      \* "listening", or the uncaught exception that ended the process

clientVars ==
    <<stream, pos, buffer, messages, log, status, last, ended, removed,
      iterations>>
serverVars ==
    <<conn, watcher, pending, written, sent, calls, served, owed, closedAt, now,
      server>>
secondVars == <<stream2, pos2, buffer2, messages2>>
testVars == <<version, tconn, timer, twritten, tserver>>
otherVars == <<clientVars, secondVars, testVars>>
vars == <<clientVars, secondVars, testVars, serverVars>>

\* ------------------------------------------------- JavaScript string helpers
Terminator == "\n"

RECURSIVE IndexFrom(_, _, _)
IndexFrom(s, ch, i) ==
    IF i >= Len(s) THEN -1
    ELSE IF s[i + 1] = ch THEN i
    ELSE IndexFrom(s, ch, i + 1)

\* lastIndexOf in the place of indexOf
IndexOf_Last(s, ch) ==
    IF \A i \in 1..Len(s) : s[i] # ch THEN -1
    ELSE (CHOOSE i \in 1..Len(s) :
              s[i] = ch /\ \A j \in (i + 1)..Len(s) : s[j] # ch) - 1

\* String.prototype.indexOf: 0-based position of the first ch, or -1
IndexOf(s, ch) == IndexFrom(s, ch, 0)

\* String.prototype.substring(a, b) and substring(a)
Substring(s, a, b) == SubSeq(s, a + 1, b)
SubstringFrom(s, a) == SubSeq(s, a + 1, Len(s))

\* ------------------------------------------------------------- JSON.parse
Digits == {"1", "2", "3", "4", "5", "6", "7", "8", "9"}

DigitValue(d) ==
    CASE d = "1" -> 1 [] d = "2" -> 2 [] d = "3" -> 3 [] d = "4" -> 4
      [] d = "5" -> 5 [] d = "6" -> 6 [] d = "7" -> 7 [] d = "8" -> 8
      [] d = "9" -> 9

TypeOf(sym) ==
    CASE sym = "w" -> "watching" [] sym = "c" -> "changed" [] sym = "u" -> "other"

\* an object without members: every property reads as undefined
EmptyObject == [type |-> "undefined", file |-> "undefined", timestamp |-> 0]

\* the members between the braces, read left to right from (1-based) index i
RECURSIVE ParseMembers(_, _, _)
ParseMembers(s, i, obj) ==
    IF i > Len(s) - 1 THEN [ok |-> TRUE, value |-> obj]
    ELSE IF s[i] \in {"w", "c", "u"}
         THEN ParseMembers(s, i + 1, [obj EXCEPT !.type = TypeOf(s[i])])
    ELSE IF s[i] = "f"
         THEN ParseMembers(s, i + 1, [obj EXCEPT !.file = "target.txt"])
    ELSE IF s[i] = "t" /\ i + 1 <= Len(s) - 1 /\ s[i + 1] \in Digits
         THEN ParseMembers(s, i + 2, [obj EXCEPT !.timestamp = DigitValue(s[i + 1])])
    ELSE [ok |-> FALSE, value |-> EmptyObject]

\* JSON.parse(input): ok = FALSE stands for the SyntaxError it throws
JSONParse(input) ==
    IF Len(input) >= 2 /\ input[1] = "{" /\ input[Len(input)] = "}"
    THEN ParseMembers(input, 2, EmptyObject)
    ELSE [ok |-> FALSE, value |-> EmptyObject]

\* --------------------------------------------------------- JSON.stringify
\* a serializer that leaves the timestamp member out
JSONStringify_NoTimestamp(obj) ==
    <<"{">>
    \o (IF obj.type = "watching" THEN <<"w">>
        ELSE IF obj.type = "changed" THEN <<"c">>
        ELSE IF obj.type = "undefined" THEN <<>> ELSE <<"u">>)
    \o (IF obj.file = "undefined" THEN <<>> ELSE <<"f">>)
    \o <<"}">>

\* the text of an object: its defined members in insertion order
JSONStringify(obj) ==
    <<"{">>
    \o (IF obj.type = "watching" THEN <<"w">>
        ELSE IF obj.type = "changed" THEN <<"c">>
        ELSE IF obj.type = "undefined" THEN <<>> ELSE <<"u">>)
    \o (IF obj.file = "undefined" THEN <<>> ELSE <<"f">>)
    \o (IF obj.timestamp = 0 THEN <<>>
        ELSE <<"t", CHOOSE d \in Digits : DigitValue(d) = obj.timestamp>>)
    \o <<"}">>

\* ---------------------------------------------- net-watcher-ldj-client.js
\* the 'message' listener: what it prints, or that it throws
MessageHandler(message) ==
    IF message.type = "watching"
    THEN [threw |-> FALSE, line |-> <<"Now watching", message.file>>]
    ELSE IF message.type = "changed"
    THEN [threw |-> FALSE, line |-> <<"File changed", message.timestamp>>]
    ELSE [threw |-> TRUE, line |-> <<"Unrecognized message type", message.type>>]

\* --------------------------------------------------- lib/ldj-client.js
\* buffer += data, with the slip of overwriting the buffer
AppendData_Overwrite(buf, data) == data

\* buffer += data
AppendData(buf, data) == buf \o data

\* buffer = buffer.substring(boundary + 1), with the slip of clearing it
Remainder_Clear(buf, boundary) == <<>>

\* buffer = buffer.substring(boundary + 2): one byte too many is dropped
Remainder_OffByOne(buf, boundary) == SubstringFrom(buf, boundary + 2)

\* buffer = buffer.substring(boundary + 1)
Remainder(buf, boundary) == SubstringFrom(buf, boundary + 1)

\* const input = buffer.substring(0, boundary), cut one byte short
Input_OffByOne(buf, boundary) ==
    Substring(buf, 0, IF boundary > 0 THEN boundary - 1 ELSE 0)

\* const input = buffer.substring(0, boundary)
Input(buf, boundary) == Substring(buf, 0, boundary)

\* The while loop of the 'data' listener on the state
\* st = [buffer, messages, log, status, removed, iterations].  JSON.parse and the 'message'
\* listener run inside this.emit, synchronously; what either throws leaves
\* the loop and the listener, and no one catches it: the process ends with
\* the buffer already cut.
RECURSIVE BoundaryLoop(_)
BoundaryLoop(st) ==
    LET boundary == IndexOf(st.buffer, Terminator) IN
    IF boundary = -1 THEN st
    ELSE LET input  == Input(st.buffer, boundary)
             rest   == Remainder(st.buffer, boundary)
             parsed == JSONParse(input)
             heard  == MessageHandler(parsed.value)
             cut    == [st EXCEPT !.buffer = rest,
                                  !.removed = Append(@, input),
                                  !.iterations = @ + 1]
         IN  IF ~parsed.ok
             THEN [cut EXCEPT !.status = "SyntaxError"]
             ELSE IF heard.threw
             THEN [cut EXCEPT !.messages = Append(@, parsed.value),
                              !.status = "Error: Unrecognized message type"]
             ELSE BoundaryLoop([cut EXCEPT !.messages = Append(@, parsed.value),
                                           !.log = Append(@, heard.line)])

\* stream.on('data', data => { ... })
DataHandler(st, data) ==
    BoundaryLoop([st EXCEPT !.buffer = AppendData(st.buffer, data)])

\* new LDJClient(stream): the state right after the constructor
NewClient ==
    [buffer |-> <<>>, messages |-> <<>>, log |-> <<>>, status |-> "running",
     removed |-> <<>>, iterations |-> 0]

\* let buffer = '' declared at module level: one buffer for all instances
OwnBuffer_ModuleLevel(mine, assigned) == assigned

\* let buffer = '' inside the constructor: the listener of every instance
\* closes over a buffer of its own, and what the listener of another
\* instance assigns does not reach it
OwnBuffer(mine, assigned) == mine

\* The stream raises 'end' and 'close'.  The constructor registers a 'data'
\* listener and nothing else, and the client program registers none on the
\* socket: no code runs, the state stays as it is.
EndHandler(st) == st

\* ------------------------------------------------------ the byte streams
\* net-watcher-json-test-service.js, replacement version: the two writes
FirstChunk  == <<"{", "c", "t">>
SecondChunk == <<"1", "}", Terminator>>

\* net-watcher-json-test-service.js, first version: the closing brace of the
\* second write sits inside the string "1358175758495}", so the object is
\* never closed
OldFirstChunk  == <<"{", "c", "f">>
OldSecondChunk == <<"t", "1", Terminator>>

\* payloads a peer may send before a terminator
Payloads ==
    { <<"{", "w", "f", "}">>,                 \* watching, as the server writes it
      <<"{", "c", "f", "t", "2", "}">>,       \* changed, as the server writes it
      <<"{", "c", "t", "1", "}">>,            \* the test service's message
      <<"{", "u", "}">>,                      \* well-formed, unknown type
      <<"{", "c", "f", "t", "1">>,            \* the first test service's text
      <<>> }                                  \* an empty line

RECURSIVE Concat(_)
Concat(frames) ==
    IF frames = <<>> THEN <<>>
    ELSE Head(frames) \o <<Terminator>> \o Concat(Tail(frames))

Streams ==
    { Concat(fs) : fs \in UNION { [1..n -> Payloads] : n \in 0..MaxFrames } }

\* ------------------------------------------------------------ the client
InitClient ==
    /\ stream \in Streams
    /\ pos = 0
    /\ buffer = NewClient.buffer
    /\ messages = NewClient.messages
    /\ log = NewClient.log
    /\ status = NewClient.status
    /\ last = [pos |-> 0, buffer |-> <<>>, count |-> 0, called |-> FALSE]
    /\ ended = FALSE
    /\ removed = NewClient.removed
    /\ iterations = NewClient.iterations

\* ------------------------------------------------------------ the server
Conns == 1..MaxConns

\* process.argv[2]
filename == "target.txt"

InitServer ==
    /\ conn = [c \in Conns |-> "none"]
    /\ watcher = [c \in Conns |-> "none"]
    /\ pending = [c \in Conns |-> <<>>]
    /\ written = [c \in Conns |-> <<>>]
    /\ sent = [c \in Conns |-> <<>>]
    /\ calls = [c \in Conns |-> 0]
    /\ served = [c \in Conns |-> <<>>]
    /\ owed = [c \in Conns |-> {}]
    /\ closedAt = [c \in Conns |-> -1]
    /\ now = 0
    /\ server = "listening"

\* The stream hands the next n bytes to the 'data' listener.  n is any
\* length: TCP splits and joins writes freely, and a stream given to
\* LDJClient may emit 'data' with an empty chunk.
Data(n) ==
    /\ status = "running"
    /\ ~ended
    /\ pos + n <= Len(stream)
    /\ LET st == DataHandler([buffer |-> buffer, messages |-> messages,
                              log |-> log, status |-> status,
                              removed |-> removed, iterations |-> 0],
                             SubSeq(stream, pos + 1, pos + n))
       IN  /\ buffer' = st.buffer
           /\ messages' = st.messages
           /\ log' = st.log
           /\ status' = st.status
           /\ removed' = st.removed
           /\ iterations' = st.iterations
           /\ buffer2' = OwnBuffer(buffer2, st.buffer)
    /\ last' = [pos |-> pos, buffer |-> buffer, count |-> Len(messages),
                called |-> TRUE]
    /\ pos' = pos + n
    /\ UNCHANGED <<stream, ended, stream2, pos2, messages2, testVars,
                   serverVars>>

\* The connection ends after the bytes delivered so far (the peer closed
\* it, or it was lost): no 'data' event follows.
StreamEnds ==
    /\ status = "running"
    /\ ~ended
    /\ ended' = TRUE
    /\ LET st == EndHandler([buffer |-> buffer, messages |-> messages,
                             log |-> log, status |-> status,
                             removed |-> removed, iterations |-> iterations])
       IN  /\ buffer' = st.buffer
           /\ messages' = st.messages
           /\ log' = st.log
           /\ status' = st.status
           /\ removed' = st.removed
           /\ iterations' = st.iterations
    /\ UNCHANGED <<stream, pos, last, secondVars, testVars, serverVars>>

NextClient ==
    \/ \E n \in 0..Len(stream) : Data(n)
    \/ StreamEnds

\* no second LDJClient is built
IdleSecond ==
    /\ stream2 = <<>>
    /\ pos2 = 0
    /\ buffer2 = NewClient.buffer
    /\ messages2 = NewClient.messages

\* ------------------------------------------------------ the test service
TestConns == 1..MaxTestConns

\* the chunks of the listing that runs
FirstWrite(v) == IF v = "first" THEN OldFirstChunk ELSE FirstChunk
SecondWrite(v) == IF v = "first" THEN OldSecondChunk ELSE SecondChunk

\* the test service is not started
IdleTest ==
    /\ version = "replacement"
    /\ tconn = [c \in TestConns |-> "none"]
    /\ timer = [c \in TestConns |-> "none"]
    /\ twritten = [c \in TestConns |-> <<>>]
    /\ tserver = "listening"

Init == InitClient /\ IdleSecond /\ IdleTest /\ InitServer

Spec == Init /\ [][NextClient]_vars

\* ------------------------------------------- two LDJClients in one process
\* what the two peers send: a message the handler knows, one it does not,
\* and the test service's message
PayloadsTwo ==
    { <<"{", "w", "f", "}">>, <<"{", "u", "}">>, <<"{", "c", "t", "1", "}">> }

StreamsTwo ==
    { Concat(fs) : fs \in UNION { [1..n -> PayloadsTwo] : n \in 0..MaxFramesTwo } }

\* LDJClient.connect(stream) twice, on two streams, each instance with the
\* 'message' listener of the client program
InitTwo ==
    /\ stream \in StreamsTwo
    /\ pos = 0
    /\ buffer = NewClient.buffer
    /\ messages = NewClient.messages
    /\ log = NewClient.log
    /\ status = NewClient.status
    /\ last = [pos |-> 0, buffer |-> <<>>, count |-> 0, called |-> FALSE]
    /\ ended = FALSE
    /\ removed = NewClient.removed
    /\ iterations = NewClient.iterations
    /\ stream2 \in StreamsTwo
    /\ pos2 = 0
    /\ buffer2 = NewClient.buffer
    /\ messages2 = NewClient.messages
    /\ IdleTest
    /\ InitServer

\* a 'data' event of n bytes on the second instance's stream
Data2(n) ==
    /\ status = "running"
    /\ pos2 + n <= Len(stream2)
    /\ LET st == DataHandler([buffer |-> buffer2, messages |-> messages2,
                              log |-> log, status |-> status,
                              removed |-> <<>>, iterations |-> 0],
                             SubSeq(stream2, pos2 + 1, pos2 + n))
       IN  /\ buffer2' = st.buffer
           /\ messages2' = st.messages
           /\ log' = st.log
           /\ status' = st.status
           /\ buffer' = OwnBuffer(buffer, st.buffer)
    /\ pos2' = pos2 + n
    /\ UNCHANGED <<stream, pos, messages, last, ended, removed, iterations,
                   stream2, testVars, serverVars>>

NextTwo ==
    \/ \E n \in 1..Len(stream) : Data(n)
    \/ \E n \in 1..Len(stream2) : Data2(n)

SpecTwo == InitTwo /\ [][NextTwo]_vars

\* ----------------------------------------------------- the server, cont.
\* connection.on('close', ...) without the watcher.close() call
CloseListener_KeepsWatcher(w) == w

\* connection.on('close', ...): watcher.close()
CloseListener(w) == "closed"

\* {type: 'watching', file: filename}
WatchingMessage == [type |-> "watching", file |-> filename, timestamp |-> 0]

\* {type: 'changed', file: filename, timestamp: Date.now()}
ChangedMessage(t) == [type |-> "changed", file |-> filename, timestamp |-> t]

\* JSON.stringify({...}) + '\n'
FrameOf(message) == JSONStringify(message) \o <<Terminator>>

\* the listener with its first connection.write left commented out
Greeting_CommentedOut == <<>>

\* what the connection listener writes before it sets up the watcher
Greeting == <<WatchingMessage>>

\* the listener without the fs.watch call: no watcher for the connection
WatcherSetup_Missing(w) == w

\* let watcher = fs.watch(filename, ...): a watcher of the connection's own
WatcherSetup(w) == "active"

\* net.createServer(function(connection) { ... }): a peer connects.  The
\* listener writes the 'watching' frame, starts a watcher of its own and
\* registers the 'close' listener (and no 'error' listener).  Connections
\* are numbered in the order in which they are accepted.
Connection(c) ==
    /\ server = "listening"
    /\ conn[c] = "none"
    /\ \A d \in Conns : d < c => conn[d] # "none"
    /\ conn' = [conn EXCEPT ![c] = "open"]
    /\ written' = [written EXCEPT ![c] =
          [i \in 1..Len(Greeting) |-> FrameOf(Greeting[i])]]
    /\ sent' = [sent EXCEPT ![c] = Greeting]
    /\ calls' = [calls EXCEPT ![c] = Len(Greeting)]
    /\ watcher' = [watcher EXCEPT ![c] = WatcherSetup(@)]
    /\ UNCHANGED <<pending, served, owed, closedAt, now, server, otherVars>>

\* The watched file changes: the system queues one notification for every
\* active watcher; each is handed to its callback in a turn of its own.
FileChange ==
    /\ server = "listening"
    /\ now < MaxEvents
    /\ now' = now + 1
    /\ pending' = [c \in Conns |->
          IF watcher[c] = "active" THEN Append(pending[c], now + 1)
          ELSE pending[c]]
    /\ owed' = [c \in Conns |->
          IF conn[c] = "open" THEN owed[c] \cup {now + 1} ELSE owed[c]]
    /\ UNCHANGED <<conn, watcher, written, sent, calls, served, closedAt, server,
                   otherVars>>

\* fs.watch(filename, function() { connection.write(...) }) on an open
\* connection
WatcherCallbackWrites(c) ==
    /\ server = "listening"
    /\ watcher[c] = "active" /\ pending[c] # <<>>
    /\ conn[c] = "open"
    /\ written' = [written EXCEPT ![c] = Append(@, FrameOf(ChangedMessage(now)))]
    /\ sent' = [sent EXCEPT ![c] = Append(@, ChangedMessage(now))]
    /\ calls' = [calls EXCEPT ![c] = @ + 1]
    /\ served' = [served EXCEPT ![c] = Append(@, Head(pending[c]))]
    /\ pending' = [pending EXCEPT ![c] = Tail(@)]
    /\ UNCHANGED <<conn, watcher, owed, closedAt, now, server, otherVars>>

\* The same callback on a connection that is no longer writable: the
\* write raises 'error' on the connection (EPIPE, "This socket has been
\* ended by the other party"); the connection has no 'error' listener, so
\* the event is thrown and ends the process.
WatcherCallbackThrows(c) ==
    /\ server = "listening"
    /\ watcher[c] = "active" /\ pending[c] # <<>>
    /\ conn[c] \in {"ended", "closed"}
    /\ calls' = [calls EXCEPT ![c] = @ + 1]
    /\ pending' = [pending EXCEPT ![c] = Tail(@)]
    /\ server' = "Error: This socket has been ended by the other party"
    /\ UNCHANGED <<conn, watcher, written, sent, served, owed, closedAt, now,
                   otherVars>>

\* The peer closes its side: the connection stops being writable at once;
\* its 'close' event comes in a later turn.
PeerEnds(c) ==
    /\ server = "listening"
    /\ conn[c] = "open"
    /\ conn' = [conn EXCEPT ![c] = "ended"]
    /\ UNCHANGED <<watcher, pending, written, sent, calls, served, owed, closedAt,
                   now, server, otherVars>>

\* connection.on('close', function() { watcher.close(); }): a closed
\* watcher gets no further callbacks, queued ones included.
Close(c) ==
    /\ server = "listening"
    /\ conn[c] = "ended"
    /\ conn' = [conn EXCEPT ![c] = "closed"]
    /\ watcher' = [watcher EXCEPT ![c] = CloseListener(@)]
    /\ pending' = [pending EXCEPT ![c] =
          IF CloseListener(watcher[c]) = "closed" THEN <<>> ELSE @]
    /\ closedAt' = [closedAt EXCEPT ![c] = now]
    /\ UNCHANGED <<written, sent, calls, served, owed, now, server, otherVars>>

\* A read or a write on the connection fails (ECONNRESET, EPIPE): the
\* socket raises 'error'; with no 'error' listener registered the event is
\* thrown and ends the process.
ConnectionFails(c) ==
    /\ server = "listening"
    /\ conn[c] = "open"
    /\ conn' = [conn EXCEPT ![c] = "failed"]
    /\ server' = "Error: read ECONNRESET"
    /\ UNCHANGED <<watcher, pending, written, sent, calls, served, owed, closedAt, now,
                   otherVars>>

NextServer ==
    \/ \E c \in Conns : Connection(c)
    \/ FileChange
    \/ \E c \in Conns : WatcherCallbackWrites(c)
    \/ \E c \in Conns : WatcherCallbackThrows(c)
    \/ \E c \in Conns : PeerEnds(c)
    \/ \E c \in Conns : Close(c)
    \/ \E c \in Conns : ConnectionFails(c)

\* the client is not started: a connection with nothing to read
IdleClient ==
    /\ stream = <<>>
    /\ pos = 0
    /\ buffer = NewClient.buffer
    /\ messages = NewClient.messages
    /\ log = NewClient.log
    /\ status = NewClient.status
    /\ last = [pos |-> 0, buffer |-> <<>>, count |-> 0, called |-> FALSE]
    /\ ended = FALSE
    /\ removed = NewClient.removed
    /\ iterations = NewClient.iterations

InitIdle == IdleClient /\ IdleSecond /\ IdleTest /\ InitServer

SpecServer == InitIdle /\ [][NextServer]_vars

\* --------------------------------------- net-watcher-json-test-service.js
\* the file holds two listings of the service; one of them runs
InitTest ==
    /\ IdleClient
    /\ IdleSecond
    /\ version \in {"first", "replacement"}
    /\ tconn = [c \in TestConns |-> "none"]
    /\ timer = [c \in TestConns |-> "none"]
    /\ twritten = [c \in TestConns |-> <<>>]
    /\ tserver = "listening"
    /\ InitServer

\* connection.on('end', ...) without the clearTimeout call
EndListener_KeepsTimer(t) == t

\* connection.on('end', ...): clearTimeout(timer); clearing a timer that
\* has fired does nothing
EndListener(t) == IF t = "pending" THEN "cleared" ELSE t

\* net.createServer(connection => { ... }): a peer connects.  The listener
\* writes the first chunk and starts the timer for the second.
Accept(c) ==
    /\ tserver = "listening"
    /\ tconn[c] = "none"
    /\ tconn' = [tconn EXCEPT ![c] = "open"]
    /\ twritten' = [twritten EXCEPT ![c] = <<FirstWrite(version)>>]
    /\ timer' = [timer EXCEPT ![c] = "pending"]
    /\ UNCHANGED <<version, tserver, clientVars, secondVars, serverVars>>

\* The delay has elapsed and the timer has not been cleared: its callback
\* writes the second chunk and calls connection.end().
TimerFires(c) ==
    /\ tserver = "listening"
    /\ timer[c] = "pending"
    /\ timer' = [timer EXCEPT ![c] = "fired"]
    /\ twritten' = [twritten EXCEPT ![c] = Append(@, SecondWrite(version))]
    /\ tconn' = [tconn EXCEPT ![c] = IF @ = "open" THEN "finished" ELSE @]
    /\ UNCHANGED <<version, tserver, clientVars, secondVars, serverVars>>

\* The peer's FIN arrives, before or after the service's own end(): the
\* connection raises 'end' and the listener runs.
TestPeerEnds(c) ==
    /\ tserver = "listening"
    /\ tconn[c] \in {"open", "finished"}
    /\ tconn' = [tconn EXCEPT ![c] = "ended"]
    /\ timer' = [timer EXCEPT ![c] = EndListener(@)]
    /\ UNCHANGED <<version, twritten, tserver, clientVars, secondVars,
                   serverVars>>

\* The connection is reset: 'error' is raised, and with no 'error'
\* listener registered it is thrown and ends the service, its timers with it.
TestConnectionFails(c) ==
    /\ tserver = "listening"
    /\ tconn[c] \in {"open", "finished"}
    /\ tconn' = [tconn EXCEPT ![c] = "failed"]
    /\ tserver' = "Error: read ECONNRESET"
    /\ UNCHANGED <<version, timer, twritten, clientVars, secondVars,
                   serverVars>>

NextTest ==
    \/ \E c \in TestConns : Accept(c)
    \/ \E c \in TestConns : TimerFires(c)
    \/ \E c \in TestConns : TestPeerEnds(c)
    \/ \E c \in TestConns : TestConnectionFails(c)

SpecTest == InitTest /\ [][NextTest]_vars

\* ================================================================ claims
\* what the formulas below say about a byte sequence, computed from the
\* positions of its terminators and not by the client's loop
TermPos(s) == {i \in 1..Len(s) : s[i] = Terminator}
NumFrames(s) == Cardinality(TermPos(s))
NthTerminator(s, k) ==
    CHOOSE i \in TermPos(s) : Cardinality({j \in TermPos(s) : j <= i}) = k
Frame(s, k) ==
    SubSeq(s, IF k = 1 THEN 1 ELSE NthTerminator(s, k - 1) + 1,
              NthTerminator(s, k) - 1)
WellFormed(s) == \A k \in 1..NumFrames(s) : JSONParse(Frame(s, k)).ok
KnownTypes == {"watching", "changed"}
AllKnown(s) ==
    \A k \in 1..NumFrames(s) : JSONParse(Frame(s, k)).value.type \in KnownTypes
NoneUnknown(s) ==
    \A k \in 1..NumFrames(s) :
        JSONParse(Frame(s, k)).ok =>
            JSONParse(Frame(s, k)).value.type \in KnownTypes

Delivered == SubSeq(stream, 1, pos)             \* every byte handed over so far
Chunk == SubSeq(stream, last.pos + 1, pos)      \* the latest 'data' event
EmittedByCall == Len(messages) - last.count     \* events of the latest call

C3_EmittedInTerminatorOrder ==
    /\ Len(messages) <= NumFrames(Delivered)
    /\ \A i \in 1..Len(messages) :
          /\ JSONParse(Frame(Delivered, i)).ok
          /\ messages[i] = JSONParse(Frame(Delivered, i)).value

\* three different frames emitted, the chunk boundaries inside frames
C3_Witness ==
    /\ Len(messages) = 3
    /\ messages[1] # messages[2] /\ messages[2] # messages[3]
    /\ last.called /\ last.pos > 0 /\ stream[last.pos] # Terminator
    /\ EmittedByCall = 2
    /\ status = "running"

\* C4: the 'data' call that receives the terminators of k well-formed frames
\* emits k message events.
C4_NoFrameHeldBack ==
    (last.called /\ WellFormed(last.buffer \o Chunk)) =>
        EmittedByCall = NumFrames(Chunk)

\* C5: a malformed payload does not stop decoding: the process survives it
\* and the call still emits every well-formed frame it completes.
C5_MalformedFrameSkipped ==
    /\ status # "SyntaxError"
    /\ (last.called /\ NoneUnknown(last.buffer \o Chunk)) =>
          EmittedByCall =
            Cardinality({k \in 1..NumFrames(last.buffer \o Chunk) :
                           JSONParse(Frame(last.buffer \o Chunk, k)).ok})

\* C6: a well-formed message of another type reaches the handler and does
\* not end the client.
C6_UnknownTypeNotFatal ==
    (\E i \in 1..Len(messages) : messages[i].type \notin KnownTypes) =>
        status = "running"

\* a change event the connection still has a frame coming for: the frame
\* is written, or its callback is queued in a running server
Settled(c, e) ==
    \/ \E i \in 1..Len(served[c]) : served[c][i] = e
    \/ /\ server = "listening"
       /\ watcher[c] = "active"
       /\ \E i \in 1..Len(pending[c]) : pending[c][i] = e

\* C7: every session that was open when a change event happened and is
\* open still gets one frame for it, and no session gets two.
C7_FanOut ==
    \A c \in Conns :
        /\ conn[c] = "open" => \A e \in owed[c] : Settled(c, e)
        /\ \A i, j \in 1..Len(served[c]) : served[c][i] = served[c][j] => i = j

\* C8: when a peer has closed its connection (and no connection failed),
\* the broadcast does not fail and the sessions still open get the frame of
\* every event owed to them.
C8_BroadcastSurvivesDisconnect ==
    \A d \in Conns :
        (/\ conn[d] = "open"
         /\ \E c \in Conns : conn[c] \in {"ended", "closed"}
         /\ \A c \in Conns : conn[c] # "failed") =>
            /\ server = "listening"
            /\ \A e \in owed[d] : Settled(d, e)

C10_ErrorIsolation ==
    (\E c \in Conns : conn[c] = "failed") => server = "listening"
\* the payload the client cuts out of one written frame
Payload(frame) == Input(frame, IndexOf(frame, Terminator))

\* C11: on every accepted connection the first write is the 'watching'
\* frame and every later write appends one 'changed' frame; the 'changed'
\* frames follow the change events in their order: each is for a later
\* event than the frames before it, carries a time not before its event,
\* and not before the time in the frame written before it.
C11_WriteOrder ==
    [][\A c \in Conns :
          /\ (conn[c] = "none" /\ conn'[c] # "none") =>
                written'[c] = <<FrameOf(WatchingMessage)>>
          /\ conn[c] # "none" =>
                (written[c] # <<>> /\ written'[c][1] = FrameOf(WatchingMessage))
          /\ (conn[c] # "none" /\ written'[c] # written[c]) =>
                LET n == Len(written[c])
                    message == JSONParse(Payload(written'[c][n + 1])).value
                IN  /\ Len(written'[c]) = n + 1
                    /\ SubSeq(written'[c], 1, n) = written[c]
                    /\ message.type = "changed"
                    /\ Len(served'[c]) = n
                    /\ SubSeq(served'[c], 1, n - 1) = served[c]
                    /\ \A k \in 1..(n - 1) : served[c][k] < served'[c][n]
                    /\ served'[c][n] <= message.timestamp
                    /\ n >= 2 =>
                          JSONParse(Payload(written[c][n])).value.timestamp
                              <= message.timestamp
      ]_vars

\* a connection with the 'watching' frame and the frames of two events
C11_Witness ==
    \E c \in Conns :
        /\ Len(written[c]) = 3 /\ served[c] = <<1, 2>>
        /\ written[c][2] # written[c][3]

\* C13: every frame the server writes is the text of the object it is
\* made from plus one terminator at its end, and parsing the payload the
\* client cuts out of it gives that object back.
C13_RoundTrip ==
    [][\A c \in Conns : written'[c] # written[c] =>
          LET n == Len(written'[c])
              frame == written'[c][n]
              parsed == JSONParse(Payload(frame))
          IN  /\ n = Len(written[c]) + 1
              /\ Len(sent'[c]) = n
              /\ TermPos(frame) = {Len(frame)}
              /\ parsed.ok
              /\ parsed.value = sent'[c][n]
      ]_vars

\* a 'watching' and two different 'changed' messages went through
C13_Witness ==
    \E c \in Conns :
        sent[c] = <<WatchingMessage, ChangedMessage(1), ChangedMessage(2)>>

\* C14: a session that left the open state never gets back to it, a closed
\* one stays closed, and a connection that is accepted starts a session of
\* its own (an active watcher, the 'watching' frame, nothing queued or
\* served) without touching any other session.
C14_SessionLifeCycle ==
    [][\A c \in Conns :
          /\ conn[c] = "closed" => conn'[c] = "closed"
          /\ conn[c] \notin {"none", "open"} => conn'[c] # "open"
          /\ conn[c] # "none" => conn'[c] # "none"
          /\ (conn[c] = "none" /\ conn'[c] # "none") =>
                /\ conn'[c] = "open"
                /\ watcher'[c] = "active"
                /\ written'[c] = <<FrameOf(WatchingMessage)>>
                /\ pending'[c] = <<>> /\ served'[c] = <<>>
                /\ \A d \in Conns \ {c} :
                      /\ conn'[d] = conn[d] /\ watcher'[d] = watcher[d]
                      /\ written'[d] = written[d] /\ pending'[d] = pending[d]
                      /\ served'[d] = served[d]
      ]_vars

\* one session closed after the first event, a newer one serving the second
C14_Witness ==
    \E c, d \in Conns :
        /\ c < d
        /\ conn[c] = "closed" /\ watcher[c] = "closed" /\ closedAt[c] = 1
        /\ owed[c] = {1} /\ served[c] = <<1>>
        /\ conn[d] = "open" /\ watcher[d] = "active"
        /\ owed[d] = {2} /\ served[d] = <<2>>
        /\ Len(written[d]) = 2
\* C12 (the code does otherwise): when the connection ends while the buffer
\* holds a partial frame, a truncated-stream condition is reported, on the
\* console or as the error that ends the process.
Reports == {log[i][1] : i \in 1..Len(log)} \cup {status}

C12_TruncationReported ==
    (ended /\ buffer # <<>>) => "Truncated stream" \in Reports

\* C15 (the code does otherwise): after a 'data' event the buffer holds
\* no terminator and equals what was delivered after the last terminator.
AfterLastTerminator(s) ==
    SubSeq(s, IF TermPos(s) = {} THEN 1 ELSE NthTerminator(s, NumFrames(s)) + 1,
           Len(s))

C15_BufferIsOpenFrame ==
    last.called =>
        /\ TermPos(buffer) = {}
        /\ buffer = AfterLastTerminator(Delivered)

\* C17: a 'data' event with an empty chunk emits nothing, raises nothing
\* and leaves the buffer as it was.
C17_EmptyChunkNoOp ==
    (last.called /\ Chunk = <<>>) =>
        /\ buffer = last.buffer
        /\ EmittedByCall = 0
        /\ iterations = 0
        /\ status = "running"

\* an empty chunk arrived while the buffer held a partial frame
C17_Witness ==
    /\ last.called /\ Chunk = <<>>
    /\ last.buffer # <<>> /\ Len(messages) >= 1

\* C18: the loop of a 'data' event runs at most once per terminator in the
\* buffer, every iteration takes one terminator (at least one byte) out of
\* it, and a listener that returns leaves no terminator behind.
C18_LoopBounded ==
    last.called =>
        LET before == last.buffer \o Chunk IN
        /\ iterations <= NumFrames(before)
        /\ NumFrames(buffer) = NumFrames(before) - iterations
        /\ Len(buffer) <= Len(before) - iterations
        /\ status = "running" => NumFrames(buffer) = 0

\* one chunk closed the partial frame in the buffer and brought two more
C18_Witness ==
    /\ last.called /\ last.buffer # <<>>
    /\ iterations = 3 /\ status = "running"

\* C20: the inputs cut out so far, each with its terminator, followed by the
\* buffer, are the bytes delivered so far; the messages emitted are the
\* values of those inputs, each once and in that order, and only an input
\* that did not parse has no message.
C20_ByteConservation ==
    /\ Concat(removed) \o buffer = Delivered
    /\ Len(messages) <= Len(removed)
    /\ Len(removed) <= Len(messages) + 1
    /\ Len(removed) = Len(messages) + 1 => status = "SyntaxError"
    /\ \A i \in 1..Len(messages) :
          /\ JSONParse(removed[i]).ok
          /\ messages[i] = JSONParse(removed[i]).value

\* the handler threw on the second input while more frames were buffered
C20_Witness ==
    /\ status = "Error: Unrecognized message type"
    /\ Len(removed) = 2 /\ Len(messages) = 2
    /\ NumFrames(buffer) >= 1
\* C19: a 'data' event on the stream of one LDJClient leaves the buffer
\* and the emitted messages of the other LDJClient as they were.
C19_InstancesIndependent ==
    [][/\ pos' # pos => (buffer2' = buffer2 /\ messages2' = messages2)
       /\ pos2' # pos2 => (buffer' = buffer /\ messages' = messages)
      ]_vars

\* both instances hold a partial frame of their own between 'data' events
C19_Witness ==
    /\ buffer # <<>> /\ buffer2 # <<>> /\ buffer # buffer2
    /\ pos >= 2 /\ pos2 >= 2
    /\ status = "running"
====
